---- MODULE Spec2Model ----
(***************************************************************************)
(* Azuma: the coordinator-side REST rate-limit cache.                      *)
(*   src/src/Azuma.js             class Azuma (lines 1-103) and class      *)
(*                                AzumaRatelimit (lines 104-248)           *)
(*   src/src/ratelimits/AzumaIPC.js   class AzumaIPC                       *)
(* The registry (AzumaManager: hashes, handlers, timeout) is not part of   *)
(* the sources at hand; its lookup is modelled from spec.md section 4.2.   *)
(***************************************************************************)
EXTENDS Integers, Sequences, FiniteSets, TLC

VARIABLES
    now,        \* Date.now(), in milliseconds
    timeout,    \* manager.timeout, the global-halt scalar (a JS number)
    hashes,     \* manager.hashes: `${method}:${route}` -> hash
    handlers,   \* the registry's buckets: hash -> AzumaRatelimit fields
    timers,     \* pending sleep(after).then(() => manager.timeout = 0) tasks, each
                \* with the time (at) and the until-time of the update that made it
    debug,      \* how many 'debug' events of each kind were emitted so far
    nupdates,   \* number of update() calls applied so far
    last,       \* the operation that produced this state, with its inputs
    boot        \* class Azuma: the process's role and how far spawn() has come

vars == <<now, timeout, hashes, handlers, timers, debug, nupdates, last, boot>>

----------------------------------------------------------------------------
(* Bounds of the model *)

MaxUpdates == 3     \* update() calls in one behaviour
MaxHalts == 2       \* update() calls in one behaviour of a specification with timers
MaxTasks == 2       \* before-spawn tasks registered
MaxPolls == 2       \* sleep(1) rounds of one readiness poll
MaxSec == 2         \* whole seconds the clock may advance
EpochSec == 5       \* Date.now() at construction, in seconds

(* Program constants *)
MsPerSec == 1000

T0 == EpochSec * MsPerSec
Seconds == { T0 + s * MsPerSec : s \in 0..MaxSec }
\* the clock stands on a whole second, or one millisecond past it
Instants == { T0 + s * MsPerSec + j : s \in 0..MaxSec, j \in {0, 1} }
MaxNow == T0 + MaxSec * MsPerSec + 1

----------------------------------------------------------------------------
(* JavaScript numbers: an integer, NaN or +Infinity *)

Num(n) == [k |-> "num", v |-> n]
NaN == [k |-> "nan", v |-> 0]
Infinity == [k |-> "inf", v |-> 0]

AddJS(a, b) ==
    IF a.k = "nan" \/ b.k = "nan" THEN NaN
    ELSE IF a.k = "inf" \/ b.k = "inf" THEN Infinity
    ELSE Num(a.v + b.v)

\* a - b; b is never infinite where the code subtracts (Date#getTime is finite or NaN)
SubJS(a, b) ==
    IF a.k = "nan" \/ b.k # "num" THEN NaN
    ELSE IF a.k = "inf" THEN Infinity
    ELSE Num(a.v - b.v)

MulJS(a, n) ==
    IF a.k = "num" THEN Num(a.v * n) ELSE a

\* a < b and a <= b: false whenever an operand is NaN
LtJS(a, b) ==
    /\ a.k = "num"
    /\ \/ b.k = "inf"
       \/ b.k = "num" /\ a.v < b.v

LeJS(a, b) ==
    \/ a.k = "num" /\ b.k = "num" /\ a.v <= b.v
    \/ a.k # "nan" /\ b.k = "inf"

\* !!x for a number
TruthyNum(a) == a.k = "inf" \/ (a.k = "num" /\ a.v # 0)

----------------------------------------------------------------------------
(* Raw values: what headers.get(name) returns (null or a string), and what  *)
(* a missing property reads as (undefined).                                 *)

Null == [t |-> "null", v |-> 0, s |-> ""]
Undefined == [t |-> "undefined", v |-> 0, s |-> ""]
Empty == [t |-> "empty", v |-> 0, s |-> ""]            \* the string ""
NumStr(n) == [t |-> "num", v |-> n, s |-> ""]          \* a numeric string
Text(s) == [t |-> "text", v |-> 0, s |-> s]            \* a non-numeric string
DateStr(sec) == [t |-> "date", v |-> sec, s |-> ""]    \* an HTTP date, to the second

\* Number(x)
ToNumber(x) ==
    CASE x.t = "null" -> Num(0)
      [] x.t = "empty" -> Num(0)
      [] x.t = "num" -> Num(x.v)
      [] OTHER -> NaN

\* isNaN(x)
IsNaNJS(x) == ToNumber(x).k = "nan"

\* !!x
Truthy(x) == x.t \in {"num", "text", "date"}

\* new Date(x).getTime() for a header value (numeric strings are not fed to it)
DateGetTime(x) ==
    CASE x.t = "null" -> Num(0)
      [] x.t = "date" -> Num(x.v * MsPerSec)
      [] OTHER -> NaN

\* new Date(n).getTime() for a number
DateOfNumber(a) == IF a.k = "num" THEN a ELSE NaN

----------------------------------------------------------------------------
(* Inputs *)

Methods == {"GET", "PUT"}
PlainRoute == "/channels/1/messages"
ReactionRoute == "/channels/1/messages/2/reactions"
Routes == {PlainRoute, ReactionRoute}

\* request.route.includes('reactions')
IncludesReactions(route) == route = ReactionRoute

NoRequest == [present |-> FALSE, route |-> ""]
Request(route) == [present |-> TRUE, route |-> route]

\* A Headers object (get returns null for a header that was not sent), or none
NoHeaders ==
    [present |-> FALSE, date |-> Undefined, limit |-> Undefined,
     remaining |-> Undefined, reset |-> Undefined, hash |-> Undefined,
     after |-> Undefined, global |-> Undefined]

Headers(date, limit, remaining, reset, hash, after, global) ==
    [present |-> TRUE, date |-> date, limit |-> limit, remaining |-> remaining,
     reset |-> reset, hash |-> hash, after |-> after, global |-> global]

----------------------------------------------------------------------------
(* Hashes.  A hash reported by the API is a string; a route that has no    *)
(* recorded hash yet is filed under a hash of its own.                      *)

ApiHash(s) == [kind |-> "api", name |-> s, method |-> "", route |-> ""]
RouteHash(method, route) == [kind |-> "route", name |-> "", method |-> method, route |-> route]
NoHash == [kind |-> "none", name |-> "", method |-> "", route |-> ""]

RouteKey(method, route) == <<method, route>>

----------------------------------------------------------------------------
(* class AzumaRatelimit *)

\* a constructor that starts the reset at Infinity
NewRatelimitOpenEnded(id, hash, route) ==
    [id |-> id, hash |-> hash, route |-> route,
     limit |-> Num(-1), remaining |-> Num(-1), reset |-> Infinity, after |-> Num(-1)]

\* constructor(manager, id, hash, route)
NewRatelimit(id, hash, route) ==
    [id |-> id, hash |-> hash, route |-> route,
     limit |-> Num(-1), remaining |-> Num(-1), reset |-> Num(-1), after |-> Num(-1)]

\* constructData with its guard written && for ||
ConstructDataThrowsBoth(request, headers) == ~request.present /\ ~headers.present

\* static constructData: the guard that throws
ConstructDataThrows(request, headers) == ~request.present \/ ~headers.present

\* static constructData: the object returned
ConstructData(request, headers) ==
    [date |-> headers.date,
     limit |-> headers.limit,
     remaining |-> headers.remaining,
     reset |-> headers.reset,
     hash |-> headers.hash,
     after |-> headers.after,
     global |-> Truthy(headers.global),
     reactions |-> IncludesReactions(request.route)]

\* getAPIOffset with the operands swapped
GetAPIOffsetSwapped(date, t) == SubJS(Num(t), DateGetTime(date))

\* static getAPIOffset(date), evaluated at time t
GetAPIOffset(date, t) == SubJS(DateGetTime(date), Num(t))

\* static calculateReset(reset, date), evaluated at time t
CalculateReset(reset, date, t) ==
    SubJS(DateOfNumber(MulJS(ToNumber(reset), MsPerSec)), GetAPIOffset(date, t))

\* this.manager.azuma.sweepInterval: class Azuma defines no such property
SweepInterval == Undefined

\* update, line 240: the reset of a reactions route
ReactionsReset(date, t) ==
    AddJS(SubJS(DateGetTime(date), GetAPIOffset(date, t)), ToNumber(SweepInterval))

\* limited with Date.now() <= this.reset
LimitedInclusive(b) ==
    TruthyNum(timeout) \/ (LeJS(b.remaining, Num(0)) /\ LeJS(Num(now), b.reset))

\* limited comparing the halt's until-time with the clock
LimitedByDeadline(b) ==
    LtJS(Num(now), timeout) \/ (LeJS(b.remaining, Num(0)) /\ LtJS(Num(now), b.reset))

\* get limited(), for bucket b
Limited(b) ==
    TruthyNum(timeout) \/ (LeJS(b.remaining, Num(0)) /\ LtJS(Num(now), b.reset))

\* options.requestOffset, by default (Azuma.js:53)
RequestOffset == 500

\* get timeout(), for bucket b
Timeout(b) == SubJS(AddJS(b.reset, Num(RequestOffset)), Num(now))

\* an update that keeps the later of the stored and the new reset
UpdatedFieldsMerged(b, data, t) ==
    LET new == IF data.reactions THEN ReactionsReset(data.date, t)
               ELSE IF ~IsNaNJS(data.reset) THEN CalculateReset(data.reset, data.date, t)
               ELSE Num(t)
    IN [b EXCEPT
        !.limit = IF ~IsNaNJS(data.limit) THEN ToNumber(data.limit) ELSE Infinity,
        !.remaining = IF ~IsNaNJS(data.remaining) THEN ToNumber(data.remaining) ELSE Num(-1),
        !.reset = IF LeJS(new, b.reset) THEN b.reset ELSE new,
        !.after = IF ~IsNaNJS(data.after) THEN MulJS(ToNumber(data.after), MsPerSec) ELSE Num(-1)]

\* an update that also takes over the reported hash
UpdatedFieldsRehash(b, data, t) ==
    [b EXCEPT
        !.hash = IF Truthy(data.hash) THEN ApiHash(data.hash.s) ELSE b.hash,
        !.limit = IF ~IsNaNJS(data.limit) THEN ToNumber(data.limit) ELSE Infinity,
        !.remaining = IF ~IsNaNJS(data.remaining) THEN ToNumber(data.remaining) ELSE Num(-1),
        !.reset = IF data.reactions THEN ReactionsReset(data.date, t)
                  ELSE IF ~IsNaNJS(data.reset) THEN CalculateReset(data.reset, data.date, t)
                  ELSE Num(t),
        !.after = IF ~IsNaNJS(data.after) THEN MulJS(ToNumber(data.after), MsPerSec) ELSE Num(-1)]

\* update, lines 224-227 and 239-240: the bucket's fields after the call
UpdatedFields(b, data, t) ==
    [b EXCEPT
        !.limit = IF ~IsNaNJS(data.limit) THEN ToNumber(data.limit) ELSE Infinity,
        !.remaining = IF ~IsNaNJS(data.remaining) THEN ToNumber(data.remaining) ELSE Num(-1),
        !.reset = IF data.reactions THEN ReactionsReset(data.date, t)
                  ELSE IF ~IsNaNJS(data.reset) THEN CalculateReset(data.reset, data.date, t)
                  ELSE Num(t),
        !.after = IF ~IsNaNJS(data.after) THEN MulJS(ToNumber(data.after), MsPerSec) ELSE Num(-1)]

\* the hash test without the comparison, and with it inverted
MigratesAlways(b, hash) == Truthy(hash)
MigratesInverted(b, hash) == Truthy(hash) /\ ApiHash(hash.s) = b.hash

\* update, line 229: hash && hash !== this.hash
Migrates(b, hash) == Truthy(hash) /\ ApiHash(hash.s) # b.hash

\* the halt's until-time without Date.now()
HaltUntilRelative(t, after) == after

\* update, line 244: Date.now() + this.after
HaltUntil(t, after) == AddJS(Num(t), after)

\* sleep(ms) of node:timers/promises waits 1 ms unless 1 <= ms <= 2^31 - 1
ClampDelay(after) == IF after.k = "num" /\ after.v >= 1 THEN after.v ELSE 1

----------------------------------------------------------------------------
(* The registry *)

\* the hash a route is filed under
MappedHash(method, route) ==
    IF RouteKey(method, route) \in DOMAIN hashes
    THEN hashes[RouteKey(method, route)]
    ELSE RouteHash(method, route)

\* getOrCreate(method, route)
GetOrCreate(method, route) ==
    LET h == MappedHash(method, route)
    IN IF h \in DOMAIN handlers THEN handlers[h] ELSE NewRatelimit(h, h, route)

Put(f, key, val) == [x \in DOMAIN f \cup {key} |-> IF x = key THEN val ELSE f[x]]

----------------------------------------------------------------------------
(* History of the last operation *)

Op(op, outcome, method, request, headers, code, hash) ==
    [op |-> op, outcome |-> outcome, method |-> method, request |-> request,
     headers |-> headers, code |-> code, hash |-> hash, now |-> now]

Idle(op) == Op(op, "ok", "", NoRequest, NoHeaders, 0, NoHash)

\* azuma.emit('debug', ...): one more event of its kind
Emit(counts, kind, emitted) ==
    IF emitted THEN [counts EXCEPT ![kind] = @ + 1] ELSE counts

----------------------------------------------------------------------------
(* class Azuma *)

\* A veza server as spawn() sees it: its status (0 is the value spawn()
\* waits for), whether close() has resolved, whether it has listeners.
Server(status) == [status |-> status, closed |-> FALSE, listeners |-> TRUE]

\* new Azuma(path, ...) on a process of the given role
Constructed(primary, status, ntasks) ==
    [primary |-> primary,
     pc |-> "constructed",
     old |-> Server(status),          \* the server of the manager's own ipc
     ipc |-> "MasterIPC",             \* the class of this.manager.ipc
     server |-> Server(status),       \* this.manager.ipc.server
     polls |-> 0,
     ratelimits |-> "null",           \* this.ratelimits
     ntasks |-> ntasks,               \* Structures.getBeforeSpawn().length
     done |-> {},                     \* the tasks that have fulfilled
     workers |-> FALSE,               \* this.manager.spawn() was called
     cluster |-> "none",              \* none, created, init
     rest |-> "none"]                 \* the class of cluster.client.rest

Spawned ==
    [Constructed(TRUE, 0, 0) EXCEPT
        !.pc = "done", !.old = [status |-> 0, closed |-> TRUE, listeners |-> FALSE],
        !.ipc = "AzumaIPC", !.ratelimits = "AzumaManager", !.workers = TRUE]

registry == <<now, timeout, hashes, handlers, timers, debug, nupdates, last>>

\* spawn(), line 86, taking the worker's branch on every process
IsPrimaryNever(b) == FALSE

\* spawn(), line 86: if (isPrimary)
IsPrimary(b) == b.primary

\* a readiness poll that does not look at the status
ReadyAlways(server) == TRUE

\* spawn(), lines 87 and 91: the loop ends when server.status === 0
Ready(server) == server.status = 0

\* spawn() is called
SpawnCall ==
    /\ boot.pc = "constructed"
    /\ boot' = [boot EXCEPT !.pc = IF IsPrimary(boot) THEN "waitOld" ELSE "require"]
    /\ UNCHANGED registry

\* line 87: while (this.manager.ipc.server.status !== 0) await sleep(1)
SpawnPollOld ==
    /\ boot.pc = "waitOld"
    /\ IF Ready(boot.server)
       THEN boot' = [boot EXCEPT !.pc = "close", !.polls = 0]
       ELSE /\ boot.polls < MaxPolls
            /\ boot' = [boot EXCEPT !.polls = @ + 1]
    /\ UNCHANGED registry

\* line 88: await this.manager.ipc.server.close()
SpawnClose ==
    /\ boot.pc = "close"
    /\ boot' = [boot EXCEPT !.pc = "removeListeners",
                            !.server.closed = TRUE, !.old.closed = TRUE,
                            !.old.status = boot.server.status]
    /\ UNCHANGED registry

\* line 89: this.manager.ipc.server.removeAllListeners()
SpawnRemoveListeners ==
    /\ boot.pc = "removeListeners"
    /\ boot' = [boot EXCEPT !.pc = "replace",
                            !.server.listeners = FALSE, !.old.listeners = FALSE]
    /\ UNCHANGED registry

\* line 90: this.manager.ipc = new AzumaIPC(this.manager)
SpawnReplace(status) ==
    /\ boot.pc = "replace"
    /\ boot' = [boot EXCEPT !.pc = "waitNew", !.ipc = "AzumaIPC", !.server = Server(status)]
    /\ UNCHANGED registry

\* line 91: while (this.manager.ipc.server.status !== 0) await sleep(1)
SpawnPollNew ==
    /\ boot.pc = "waitNew"
    /\ IF Ready(boot.server)
       THEN boot' = [boot EXCEPT !.pc = "construct", !.polls = 0]
       ELSE /\ boot.polls < MaxPolls
            /\ boot' = [boot EXCEPT !.polls = @ + 1]
    /\ UNCHANGED registry

\* lines 92-94: the registry is constructed and the before-spawn tasks start
SpawnConstruct ==
    /\ boot.pc = "construct"
    /\ boot' = [boot EXCEPT !.ratelimits = "AzumaManager",
                            !.pc = IF boot.ntasks > 0 THEN "tasks" ELSE "spawnWorkers"]
    /\ UNCHANGED registry

\* a before-spawn task fulfils
TaskFulfils(i) ==
    /\ boot.pc = "tasks"
    /\ i \in (1..boot.ntasks) \ boot.done
    /\ boot' = [boot EXCEPT !.done = @ \cup {i}]
    /\ UNCHANGED registry

\* a before-spawn task rejects: Promise.all rejects, and so does spawn()
TaskRejects(i) ==
    /\ boot.pc = "tasks"
    /\ i \in (1..boot.ntasks) \ boot.done
    /\ boot' = [boot EXCEPT !.pc = "failed"]
    /\ UNCHANGED registry

\* line 94: await Promise.all(...) resolves
SpawnTasksDone ==
    /\ boot.pc = "tasks"
    /\ boot.done = 1..boot.ntasks
    /\ boot' = [boot EXCEPT !.pc = "spawnWorkers"]
    /\ UNCHANGED registry

\* lines 95-96: await this.manager.spawn(); return
SpawnWorkers ==
    /\ boot.pc = "spawnWorkers"
    /\ boot' = [boot EXCEPT !.pc = "done", !.workers = TRUE]
    /\ UNCHANGED registry

\* lines 98-99: const cluster = new (require(this.manager.path))(this.manager)
SpawnCluster ==
    /\ boot.pc = "require"
    /\ boot' = [boot EXCEPT !.pc = "rest", !.cluster = "created"]
    /\ UNCHANGED registry

\* line 100: cluster.client.rest = new RequestManager(cluster.client)
SpawnRest ==
    /\ boot.pc = "rest"
    /\ boot' = [boot EXCEPT !.pc = "init", !.rest = "RequestManager"]
    /\ UNCHANGED registry

\* line 101: await cluster.init()
SpawnInit ==
    /\ boot.pc = "init"
    /\ boot' = [boot EXCEPT !.pc = "done", !.cluster = "init"]
    /\ UNCHANGED registry

\* the server of the current transport comes to status 0
ServerOpens ==
    /\ boot.server.status # 0
    /\ ~boot.server.closed
    /\ boot' = [boot EXCEPT !.server.status = 0]
    /\ UNCHANGED registry

----------------------------------------------------------------------------
(* Actions *)

\* an empty registry
InitRegistry ==
    /\ now = T0
    /\ timeout = Num(0)
    /\ hashes = << >>
    /\ handlers = << >>
    /\ timers = {}
    /\ debug = [hash |-> 0, global |-> 0]
    /\ nupdates = 0
    /\ last = Idle("init")

\* the coordinator, once spawn() has returned
Init ==
    /\ InitRegistry
    /\ boot = Spawned

\* time passes
Tick(t) ==
    /\ t > now
    /\ now' = t
    /\ last' = Idle("tick")
    /\ UNCHANGED <<timeout, hashes, handlers, timers, debug, nupdates, boot>>

\* A response is reported: constructData(request, headers), then the bucket
\* of the route is looked up and update(method, route, data) applied to it.
Report(method, request, headers) ==
    /\ nupdates < MaxUpdates
    /\ UNCHANGED boot
    /\ IF ConstructDataThrows(request, headers)
       THEN /\ last' = Op("update", "raised", method, request, headers, 0, NoHash)
            /\ UNCHANGED <<now, timeout, hashes, handlers, timers, debug, nupdates>>
       ELSE LET data == ConstructData(request, headers)
                route == request.route
                b == GetOrCreate(method, route)
                nb == UpdatedFields(b, data, now)
                mig == Migrates(b, data.hash)
                until == HaltUntil(now, nb.after)
            IN /\ data.global => now + ClampDelay(nb.after) <= MaxNow
               /\ handlers' = Put(handlers, b.hash, nb)
               /\ hashes' = IF mig THEN Put(hashes, RouteKey(method, route), ApiHash(data.hash.s))
                            ELSE hashes
               /\ debug' = Emit(Emit(debug, "hash", mig), "global", data.global)
               /\ timeout' = IF data.global THEN until ELSE timeout
               /\ timers' = IF data.global
                            THEN timers \cup {[id |-> nupdates + 1, delay |-> nb.after,
                                               due |-> now + ClampDelay(nb.after),
                                               at |-> now, until |-> until]}
                            ELSE timers
               /\ nupdates' = nupdates + 1
               /\ last' = Op("update", "ok", method, request, headers, 0, b.hash)
               /\ UNCHANGED now

\* a clear task that leaves the scalar as it is
ClearKeeps(tm) ==
    /\ tm \in timers
    /\ now >= tm.due
    /\ timers' = timers \ {tm}
    /\ last' = Idle("clear")
    /\ UNCHANGED <<now, timeout, hashes, handlers, debug, nupdates, boot>>

\* update, line 245: a sleep(after) resolves and its callback runs
Clear(tm) ==
    /\ tm \in timers
    /\ now >= tm.due
    /\ timeout' = Num(0)
    /\ timers' = timers \ {tm}
    /\ last' = Idle("clear")
    /\ UNCHANGED <<now, hashes, handlers, debug, nupdates, boot>>

----------------------------------------------------------------------------
(* class AzumaIPC *)

\* kurasuta's IPCEvents[op]: a name, or undefined for a code the table lacks
IPCEvents(op) ==
    CASE op = 0 -> Text("EVAL")
      [] op = 1 -> Text("MESSAGE")
      [] OTHER -> Undefined

\* String#toLowerCase on the event names
ToLowerCase(s) == CASE s = "EVAL" -> "eval" [] s = "MESSAGE" -> "message" [] OTHER -> s

\* the events e for which MasterIPC has a method `_${e}`
HandlerMethods == {"message"}

\* _incommingMessage(message) with message.data.op = op
IncommingMessage(op) ==
    LET event == IPCEvents(op)
    IN IF ~Truthy(event) THEN "returned"
       ELSE IF ToLowerCase(event.s) \in HandlerMethods THEN "handled"
       ELSE "raised"

OpCodes == {0, 1, 2}

Dispatch(op) ==
    /\ last' = Op("dispatch", IncommingMessage(op), "", NoRequest, NoHeaders, op, NoHash)
    /\ UNCHANGED <<now, timeout, hashes, handlers, timers, debug, nupdates, boot>>

----------------------------------------------------------------------------
(* Specifications.  Each draws the reported headers from a family that     *)
(* varies the fields its properties are about.                              *)

\* every operation, on both routes
AnyHeaders ==
    { Headers(DateStr(EpochSec), NumStr(5), NumStr(0), NumStr(EpochSec + 1), hash, NumStr(1), global) :
        hash \in {Null, Text("H1")}, global \in {Null, Text("true")} }

Next ==
    \/ \E t \in Seconds : Tick(t)
    \/ \E request \in {NoRequest} \cup {Request(r) : r \in Routes},
          headers \in {NoHeaders} \cup AnyHeaders :
            nupdates < MaxHalts /\ Report("GET", request, headers)
    \/ \E tm \in timers : Clear(tm)
    \/ \E op \in OpCodes : Dispatch(op)

Spec == Init /\ [][Next]_vars

\* global halts and quotas of one route
HaltHeaders ==
    { Headers(DateStr(EpochSec), NumStr(5), remaining, NumStr(EpochSec + 1), Null, after, global) :
        remaining \in {NumStr(0), NumStr(1)},
        after \in {Null, NumStr(1), NumStr(2)},
        global \in {Null, Text("true")} }

NextHalt ==
    \/ \E t \in Instants : Tick(t)
    \/ \E headers \in HaltHeaders :
            nupdates < MaxHalts /\ Report("GET", Request(PlainRoute), headers)
    \/ \E tm \in timers : Clear(tm)

SpecHalt == Init /\ [][NextHalt]_vars

\* the same, under fairness: time passes, and a sleep that has resolved runs
\* its callback
LiveHeaders == { h \in HaltHeaders : h.remaining = NumStr(0) }

NextLive ==
    \/ \E t \in Instants : Tick(t)
    \/ \E headers \in LiveHeaders :
            nupdates < MaxHalts /\ Report("GET", Request(PlainRoute), headers)
    \/ \E tm \in timers : Clear(tm)

LiveHalt ==
    /\ Init
    /\ [][NextLive]_vars
    /\ WF_vars(\E t \in Instants : Tick(t))
    /\ WF_vars(\E tm \in timers : Clear(tm))

\* hash headers of two route keys
HashHeaders ==
    { Headers(DateStr(EpochSec), NumStr(5), NumStr(4), NumStr(EpochSec + 1), hash, Null, Null) :
        hash \in {Null, Empty, Text("H1"), Text("H2")} }

NextHash ==
    \/ \E method \in Methods, headers \in HashHeaders :
            Report(method, Request(PlainRoute), headers)

SpecHash == Init /\ [][NextHash]_vars

\* quotas of one route, with and without a reset header, and global halts
QuotaHeaders ==
    { Headers(DateStr(EpochSec), NumStr(5), remaining, reset, Null, NumStr(1), global) :
        remaining \in {NumStr(-5), NumStr(0), NumStr(1)},
        reset \in {Null, NumStr(EpochSec + 1), NumStr(EpochSec + 2)},
        global \in {Null, Text("true")} }

NextQuota ==
    \/ \E t \in Seconds : Tick(t)
    \/ \E headers \in QuotaHeaders :
            nupdates < MaxHalts /\ Report("GET", Request(PlainRoute), headers)
    \/ \E tm \in timers : Clear(tm)

SpecQuota == Init /\ [][NextQuota]_vars

\* startup, on a process of either role
InitSpawn ==
    /\ InitRegistry
    /\ \E primary \in BOOLEAN, status \in {0, 1}, ntasks \in 0..MaxTasks :
            boot = Constructed(primary, status, ntasks)

NextSpawn ==
    \/ SpawnCall
    \/ SpawnPollOld
    \/ SpawnClose
    \/ SpawnRemoveListeners
    \/ \E status \in {0, 1} : SpawnReplace(status)
    \/ SpawnPollNew
    \/ SpawnConstruct
    \/ \E i \in 1..MaxTasks : TaskFulfils(i)
    \/ \E i \in 1..MaxTasks : TaskRejects(i)
    \/ SpawnTasksDone
    \/ SpawnWorkers
    \/ SpawnCluster
    \/ SpawnRest
    \/ SpawnInit
    \/ ServerOpens

SpecSpawn == InitSpawn /\ [][NextSpawn]_vars

\* reset and date headers on a plain and a reactions route
ResetHeaders ==
    { Headers(date, NumStr(5), NumStr(0), reset, Null, Null, Null) :
        date \in {Null, Text("yesterday"), DateStr(EpochSec), DateStr(EpochSec + 1), DateStr(EpochSec + MaxSec)},
        reset \in {Null, Text("never"), NumStr(0), NumStr(EpochSec + 1), NumStr(EpochSec + MaxSec + 1)} }

NextReset ==
    \/ \E t \in Seconds : Tick(t)
    \/ \E r \in Routes, headers \in ResetHeaders : Report("GET", Request(r), headers)

SpecReset == Init /\ [][NextReset]_vars

----------------------------------------------------------------------------
(* Properties *)

\* the bucket the last update() was applied to
LastBucket == handlers[last.hash]
LastUpdated == last.op = "update" /\ last.outcome = "ok"

\* remaining <= 0 and now < resetAt, for bucket b
QuotaExhausted(b) ==
    /\ b.remaining.k = "num" /\ b.remaining.v <= 0
    /\ b.reset.k = "num" /\ now < b.reset.v

\* C1 (as stated): every bucket is limited exactly when the global halt's
\* until-time lies in the future or its own quota is exhausted.
C1_LimitedIffHaltInFuture ==
    \A h \in DOMAIN handlers :
        Limited(handlers[h])
            <=> ((timeout.k = "num" /\ timeout.v > now) \/ QuotaExhausted(handlers[h]))

\* C1 (amended): every bucket is limited exactly when the global-halt scalar
\* is nonzero, whether or not its until-time has passed, or its own quota is
\* exhausted.
C1_LimitedIffHaltSet ==
    \A h \in DOMAIN handlers :
        Limited(handlers[h]) <=> (timeout # Num(0) \/ QuotaExhausted(handlers[h]))

\* C1 witness: a bucket with quota left is limited by a halt whose until-time
\* has passed while its clear task is still pending.
C1_Witness ==
    \E h \in DOMAIN handlers :
        /\ timeout.k = "num" /\ timeout.v # 0 /\ timeout.v <= now
        /\ timers # {}
        /\ ~QuotaExhausted(handlers[h])
        /\ Limited(handlers[h])

\* C2 (as stated): when the clear task of a halt until U1 runs while the
\* scalar holds the until-time U2 > U1 of a later halt that was set before
\* U1, the scalar keeps U2.
C2_SupersededClearKeepsHalt ==
    [][\A t1, t2 \in timers :
        (/\ timers' = timers \ {t1}
         /\ t2.id > t1.id
         /\ t1.until.k = "num" /\ t2.until.k = "num"
         /\ t2.at < t1.until.v /\ t2.until.v > t1.until.v
         /\ timeout = t2.until)
        => timeout' = timeout]_vars

\* C3: under fairness of the clock and of the clear tasks, a global halt that
\* is set is eventually back at 0.
C3_HaltSelfClears == (timeout # Num(0)) ~> (timeout = Num(0))

\* C3 witness: a halt was set, and the scalar is back at 0 with no clear task left.
C3_Witness == debug.global >= 1 /\ timeout = Num(0) /\ timers = {}

\* C4: an update with global=true sets the halt scalar to now + retryAfter,
\* retryAfter being 1000 times the retry-after header, and schedules one clear
\* task with that delay; an update with global=false changes neither the
\* scalar nor the clear tasks.
C4_GlobalSetsHalt ==
    [][nupdates' = nupdates + 1 =>
        LET b == handlers'[last'.hash]
            h == last'.headers
        IN IF h.global.t \in {"text", "num"}
           THEN /\ h.after.t = "num" => b.after = Num(h.after.v * 1000)
                /\ b.after.k = "num"
                /\ timeout' = Num(now + b.after.v)
                /\ \E tm \in timers' : timers' = timers \cup {tm} /\ tm \notin timers
                                        /\ tm.delay = b.after
           ELSE timeout' = timeout /\ timers' = timers]_vars

\* C4 witness: a global update with retry-after 2 has set the halt 2000 ms ahead.
C4_Witness ==
    /\ LastUpdated
    /\ last.headers.global = Text("true")
    /\ last.headers.after = NumStr(2)
    /\ timeout = Num(last.now + 2000)
    /\ \E tm \in timers : tm.delay = Num(2000)

\* C5: an update carrying a hash that differs from the route's recorded hash
\* repoints the route to it and emits exactly one migration event; an update
\* carrying the recorded hash, or none, emits no event and leaves the mapping
\* as it is.
C5_MigrationIdempotent ==
    [][nupdates' = nupdates + 1 =>
        LET method == last'.method
            route == last'.request.route
            hash == last'.headers.hash
        IN IF hash.t = "text" /\ ApiHash(hash.s) # MappedHash(method, route)
           THEN /\ hashes' = Put(hashes, RouteKey(method, route), ApiHash(hash.s))
                /\ debug'.hash = debug.hash + 1
           ELSE hashes' = hashes /\ debug'.hash = debug.hash]_vars

\* C5 witness: three updates of one route, the last carrying the hash the
\* route is recorded under, and a single migration event.
C5_Witness ==
    /\ LastUpdated
    /\ nupdates = 3
    /\ last.headers.hash = Text("H1")
    /\ last.hash = ApiHash("H1")
    /\ hashes = Put(<< >>, RouteKey(last.method, last.request.route), ApiHash("H1"))
    /\ DOMAIN handlers = {RouteHash(last.method, last.request.route), ApiHash("H1")}
    /\ debug.hash = 1

\* C6: after an update that carries a hash, the route is recorded under that hash.
C6_MappingIsLastHash ==
    (LastUpdated /\ last.headers.hash.t = "text") =>
        /\ RouteKey(last.method, last.request.route) \in DOMAIN hashes
        /\ hashes[RouteKey(last.method, last.request.route)] = ApiHash(last.headers.hash.s)

\* C6 witness: one route took the hashes H1, H2, H1 in three updates and is
\* recorded under H1.
C6_Witness ==
    /\ LastUpdated
    /\ nupdates = 3
    /\ debug.hash = 3
    /\ last.headers.hash = Text("H1")
    /\ last.hash = ApiHash("H2")
    /\ hashes = Put(<< >>, RouteKey(last.method, last.request.route), ApiHash("H1"))

\* C7 (as stated): dispatching an op that has no handler returns normally.
C7_UnknownOpNeverRaises ==
    (/\ last.op = "dispatch"
     /\ \/ IPCEvents(last.code).t # "text"
        \/ ToLowerCase(IPCEvents(last.code).s) \notin HandlerMethods)
    => last.outcome = "returned"

C9_ResetIsOffsetCorrected ==
    (/\ LastUpdated
     /\ last.request.route = PlainRoute
     /\ last.headers.reset.t = "num"
     /\ last.headers.date.t = "date")
    => LastBucket.reset =
         Num(last.headers.reset.v * 1000 - (last.headers.date.v * 1000 - last.now))

\* C9 witness: a zero clock offset, and resetAt = R*1000.
C9_Witness ==
    /\ LastUpdated
    /\ last.request.route = PlainRoute
    /\ last.headers.reset.t = "num" /\ last.headers.reset.v > 0
    /\ last.headers.date.t = "date"
    /\ last.headers.date.v * 1000 = last.now
    /\ LastBucket.reset = Num(last.headers.reset.v * 1000)

\* C10 (as stated): after an update of a reactions route, resetAt is a finite
\* time, whatever the reset header.
C10_ReactionsResetFinite ==
    (LastUpdated /\ last.request.route = ReactionRoute) => LastBucket.reset.k = "num"

\* the value the documentation gives a header: its number, or the sentinel
\* when it is absent (null or undefined) or, for the limit, not a number
Documented(x, sentinel, scale, textToo) ==
    IF x.t = "num" THEN Num(x.v * scale)
    ELSE IF x.t \in {"null", "undefined"} \/ (textToo /\ x.t = "text") THEN sentinel
    ELSE Num(0)

\* C11 (as stated): after an update, limit, remaining and retryAfter hold the
\* header's number (retry-after times 1000), or Infinity, -1 and -1 when the
\* header is absent.
C11_AbsentHeaderYieldsSentinel ==
    LastUpdated =>
        /\ last.headers.limit.t \in {"num", "null", "undefined", "text"}
             => LastBucket.limit = Documented(last.headers.limit, Infinity, 1, TRUE)
        /\ last.headers.remaining.t \in {"num", "null", "undefined"}
             => LastBucket.remaining = Documented(last.headers.remaining, Num(-1), 1, FALSE)
        /\ last.headers.after.t \in {"num", "null", "undefined"}
             => LastBucket.after = Documented(last.headers.after, Num(-1), 1000, FALSE)

\* C13 (as stated): every bucket has remaining >= -1.
C13_RemainingAtLeastMinusOne ==
    \A h \in DOMAIN handlers :
        handlers[h].remaining.k = "num" /\ handlers[h].remaining.v >= -1

\* C14 (as stated): an update of an existing bucket that carries no hash
\* change does not decrease its resetAt.
C14_ResetNeverDecreases ==
    [][(/\ nupdates' = nupdates + 1
        /\ last'.hash \in DOMAIN handlers
        /\ hashes' = hashes)
       => LeJS(handlers[last'.hash].reset, handlers'[last'.hash].reset)]_vars

\* C15: a bucket with remaining <= 0 is limited while now < resetAt, and is
\* not limited at any instant >= resetAt at which the halt scalar is 0.
C15_LimitEndsAtReset ==
    \A h \in DOMAIN handlers :
        LET b == handlers[h]
        IN (b.remaining.k = "num" /\ b.remaining.v <= 0 /\ b.reset.k = "num") =>
              /\ now < b.reset.v => Limited(b)
              /\ (now >= b.reset.v /\ timeout = Num(0)) => ~Limited(b)

\* C15 witness: limit=5, remaining=0, reset=now+2s, date=now was applied once,
\* two seconds have passed with no halt, and the bucket is not limited.
C15_Witness ==
    /\ nupdates = 1 /\ last.op = "tick"
    /\ timeout = Num(0)
    /\ now = T0 + 2000
    /\ \E h \in DOMAIN handlers :
          /\ handlers[h].limit = Num(5)
          /\ handlers[h].remaining = Num(0)
          /\ handlers[h].reset = Num(T0 + 2000)
          /\ ~Limited(handlers[h])

\* the four quota fields of a bucket
Quota(b) == <<b.limit, b.remaining, b.reset, b.after>>

\* C16: after an update, the bucket's limit, remaining, resetAt and
\* retryAfter are what the same update gives a bucket that was never updated:
\* nothing of an earlier update survives.
C16_LastUpdateWins ==
    LastUpdated =>
        Quota(LastBucket) =
            Quota(UpdatedFields(NewRatelimit(last.hash, last.hash, last.request.route),
                                ConstructData(last.request, last.headers), last.now))

\* C16 witness: two updates were applied to one bucket, the second without a
\* reset header.
C16_Witness ==
    /\ LastUpdated
    /\ nupdates = 2
    /\ Cardinality(DOMAIN handlers) = 1
    /\ last.headers.reset = Null
    /\ last.headers.remaining = NumStr(1)

\* C18 (as stated): a bucket that is limited has a positive timeout.
C18_LimitedTimeoutPositive ==
    \A h \in DOMAIN handlers :
        Limited(handlers[h]) => LtJS(Num(0), Timeout(handlers[h]))

\* C19: while the halt scalar is 0, the bucket created for a route that has
\* none yet is unknown (limit = -1, remaining = -1), is not limited, and its
\* resetAt is not in the future.
C19_FreshBucketNotLimited ==
    \A method \in Methods, route \in Routes :
        (MappedHash(method, route) \notin DOMAIN handlers /\ timeout = Num(0)) =>
            LET b == GetOrCreate(method, route)
            IN /\ b.limit = Num(-1) /\ b.remaining = Num(-1)
               /\ ~Limited(b)
               /\ b.reset.k = "num" /\ b.reset.v <= now

\* C19 witness: time has passed, a halt came and went, and a route still has
\* no bucket.
C19_Witness ==
    /\ now > T0 /\ timeout = Num(0) /\ debug.global >= 1
    /\ MappedHash("PUT", ReactionRoute) \notin DOMAIN handlers
    /\ ~Limited(GetOrCreate("PUT", ReactionRoute))

\* C20: an update changes only the quota fields of the bucket it is applied
\* to, the route's own hash entry and only when the reported hash differs
\* from the bucket's, and the halt scalar only when global is set; every
\* other bucket and route entry, and the bucket's id, hash and route, stay.
C20_UpdateFrame ==
    [][nupdates' = nupdates + 1 =>
        LET h == last'.hash
            key == RouteKey(last'.method, last'.request.route)
            reported == last'.headers.hash
        IN /\ DOMAIN handlers' = DOMAIN handlers \cup {h}
           /\ \A x \in DOMAIN handlers \ {h} : handlers'[x] = handlers[x]
           /\ handlers'[h].id = h /\ handlers'[h].hash = h
           /\ h \in DOMAIN handlers =>
                /\ handlers'[h].id = handlers[h].id
                /\ handlers'[h].hash = handlers[h].hash
                /\ handlers'[h].route = handlers[h].route
           /\ DOMAIN hashes \subseteq DOMAIN hashes'
           /\ DOMAIN hashes' \subseteq DOMAIN hashes \cup {key}
           /\ \A k \in DOMAIN hashes \ {key} : hashes'[k] = hashes[k]
           /\ hashes' # hashes => (reported.t = "text" /\ ApiHash(reported.s) # h)
           /\ timeout' # timeout => last'.headers.global.t = "text"]_vars

\* C20 witness: an update with a new hash and global set was applied to one
\* bucket while another bucket and another route entry existed.
C20_Witness ==
    /\ LastUpdated
    /\ last.headers.hash = Text("H1")
    /\ last.headers.global = Text("true")
    /\ last.hash.kind = "route"
    /\ \E x \in DOMAIN handlers : x # last.hash
    /\ \E k \in DOMAIN hashes : k # RouteKey(last.method, last.request.route)


\* C12: on the primary, the registry exists only once the prior server was
\* seen at status 0, closed and stripped of its listeners, AzumaIPC has
\* replaced it and the new server was seen at status 0; workers are spawned
\* only once the registry exists and every before-spawn task has fulfilled,
\* so never while the old transport is still installed.
C12_StartupOrdering ==
    /\ boot.ratelimits # "null" =>
          /\ boot.old.status = 0
          /\ boot.old.closed
          /\ ~boot.old.listeners
          /\ boot.ipc = "AzumaIPC"
          /\ boot.server.status = 0
    /\ boot.workers =>
          /\ boot.ratelimits = "AzumaManager"
          /\ boot.done = 1..boot.ntasks
          /\ boot.ipc = "AzumaIPC"
          /\ boot.old.closed

C12_Witness ==
    /\ boot.primary
    /\ boot.pc = "done"
    /\ boot.workers
    /\ boot.ntasks = MaxTasks

\* C17: on a worker, spawn() leaves this.ratelimits null, the transport
\* neither closed nor replaced and no worker spawned, and cluster.init() is
\* called only with the RequestManager installed; on the primary, spawn()
\* creates neither a cluster nor a RequestManager.
C17_RoleExclusive ==
    /\ ~boot.primary =>
          /\ boot.ratelimits = "null"
          /\ ~boot.old.closed /\ ~boot.server.closed
          /\ boot.old.listeners /\ boot.server.listeners
          /\ boot.ipc = "MasterIPC"
          /\ ~boot.workers
          /\ boot.cluster = "init" => boot.rest = "RequestManager"
    /\ boot.primary => boot.cluster = "none" /\ boot.rest = "none"

C17_Witness ==
    /\ ~boot.primary
    /\ boot.pc = "done"
    /\ boot.cluster = "init"
    /\ boot.rest = "RequestManager"

====
